---- MODULE Spec2Model ----
(***************************************************************************)
(* A model of input_output_utils: ExcelFormat, CellFormatMap, DataTable,   *)
(* DataSheet and ExcelManager of excel.py, and the older CellFormatMap and *)
(* DataSheet of input_output_managers.py.                                  *)
(*                                                                         *)
(* Python objects live in `heap`: an ExcelFormat object is an index of the *)
(* heap, its attributes the record stored there.  An optional attribute is *)
(* a sequence of length at most one: None is <<>>, the value v is <<v>>.   *)
(***************************************************************************)
EXTENDS Integers, Sequences, FiniteSets, TLC

VARIABLES
    heap,               \* the live ExcelFormat objects, by identity
    call,               \* the most recent call: its name, arguments and outcome
    df,                 \* DataTable.df of every table
    format_map,         \* DataTable.format_map._cell_map of every table
    grid,               \* DataSheet._grid of every sheet
    num_rows,           \* DataSheet._num_rows
    num_cols,           \* DataSheet._num_cols
    master_format_map,  \* DataSheet.master_format_map._cell_map
    tables,             \* the anchored tables of every sheet, in insertion order
    data_sheets,        \* ExcelManager._data_sheets, in insertion order
    legacy_map          \* _cell_map of a CellFormatMap of input_output_managers.py

vars == <<heap, call, df, format_map, grid, num_rows, num_cols,
          master_format_map, tables, data_sheets, legacy_map>>

----------------------------------------------------------------------------
(* Bounds of the model.                                                    *)

\* The most format objects the registries hold together.
MaxObjs == 4
\* The most tables inserted into one sheet.
MaxInserts == 2
\* The most body rows and the most columns a table grows to.
MaxBodyRows == 4
MaxColumns == 3

----------------------------------------------------------------------------
(* ExcelFormat                                                             *)

None == <<>>
Some(v) == <<v>>

Attrs == {"font_color", "font_size", "is_bold", "fill_color", "text_align"}

HexColors == {"RED"}
FontSizes == {14, 10}
Aligns == {"left"}

Opt(S) == {None} \cup {Some(v) : v \in S}

\* Every ExcelFormat over the modelled attribute values.
AllFormats ==
    [font_color : Opt(HexColors), font_size : Opt(FontSizes),
     is_bold : Opt(BOOLEAN), fill_color : Opt(HexColors),
     text_align : Opt(Aligns)]

\* ExcelFormat.__init__: the keyword defaults are 14, False and 'left'.
ExcelFormat(font_color, font_size, is_bold, fill_color, text_align) ==
    [font_color |-> font_color, font_size |-> font_size, is_bold |-> is_bold,
     fill_color |-> fill_color, text_align |-> text_align]

DefaultFormat == ExcelFormat(None, Some(14), Some(FALSE), None, Some("left"))

\* A faulty update: `if v:` instead of `if v is not None:` (False never overwrites).
UpdateIfTruthy(self, other) ==
    [k \in Attrs |->
        IF other[k] # None /\ ~(k = "is_bold" /\ other[k] = Some(FALSE))
        THEN other[k] ELSE self[k]]

\* ExcelFormat.update: every attribute of other that is not None is set on self.
Update(self, other) ==
    [k \in Attrs |-> IF other[k] # None THEN other[k] ELSE self[k]]

\* ExcelFormat.__hash__: the hash of four attributes (text_align is left out).
Hash(f) == <<f.font_color, f.font_size, f.is_bold, f.fill_color>>

\* ExcelFormat defines no __eq__: two objects are equal when they are the same.
Eq(a, b) == a = b

\* ExcelFormat.create_xlsx_writer_format
create_xlsx_writer_format(f) ==
    [font_size |-> f.font_size, bold |-> f.is_bold, align |-> f.text_align,
     font_color |-> f.font_color, bg_color |-> f.fill_color]

----------------------------------------------------------------------------
(* CellFormatMap (excel.py).  _cell_map is a dict: here the sequence of    *)
(* its entries in insertion order, each a coordinate and an object.        *)

Has(m, loc) == \E i \in 1..Len(m) : m[i].loc = loc
At(m, loc) == m[CHOOSE i \in 1..Len(m) : m[i].loc = loc].obj

\* A faulty format_cell: an occupied coordinate is overwritten whatever exist_ok says
\* (what CellFormatMap.format_cell of input_output_managers.py does when
\* exist_ok is true).
format_cell_overwrite(m, h, row_idx, col_idx, excel_format, exist_ok) ==
    LET format_copy == Len(h) + 1
        loc == <<row_idx, col_idx>>
    IN  IF ~Has(m, loc)
        THEN [map |-> Append(m, [loc |-> loc, obj |-> format_copy]),
              heap |-> Append(h, h[excel_format]), raised |-> "None"]
        ELSE [map |-> m,
              heap |-> [h EXCEPT ![At(m, loc)] = h[excel_format]],
              raised |-> "None"]

\* A faulty format_cell: the merge of an occupied coordinate keeps the stored values and
\* takes only what the stored format lacks (the arguments of update swapped).
format_cell_keep(m, h, row_idx, col_idx, excel_format, exist_ok) ==
    LET format_copy == Len(h) + 1
        loc == <<row_idx, col_idx>>
    IN  IF ~Has(m, loc)
        THEN [map |-> Append(m, [loc |-> loc, obj |-> format_copy]),
              heap |-> Append(h, h[excel_format]), raised |-> "None"]
        ELSE IF exist_ok
        THEN [map |-> m,
              heap |-> [h EXCEPT ![At(m, loc)] = Update(h[excel_format], @)],
              raised |-> "None"]
        ELSE [map |-> m, heap |-> h, raised |-> "KeyError"]

\* CellFormatMap.format_cell.  The deep copy is a new object with the
\* attribute values of excel_format; a copy that is not stored is garbage
\* and is not kept in the heap.
format_cell(m, h, row_idx, col_idx, excel_format, exist_ok) ==
    LET format_copy == Len(h) + 1
        loc == <<row_idx, col_idx>>
    IN  IF ~Has(m, loc)
        THEN [map |-> Append(m, [loc |-> loc, obj |-> format_copy]),
              heap |-> Append(h, h[excel_format]), raised |-> "None"]
        ELSE IF exist_ok
        THEN [map |-> m,
              heap |-> [h EXCEPT ![At(m, loc)] = Update(@, h[excel_format])],
              raised |-> "None"]
        ELSE [map |-> m, heap |-> h, raised |-> "KeyError"]

\* The loops of format_rows, format_columns and insert_data_table: format_cell
\* on every entry of cells in turn, until one raises.
RECURSIVE format_cells(_, _, _, _)
format_cells(m, h, cells, exist_ok) ==
    IF cells = <<>>
    THEN [map |-> m, heap |-> h, raised |-> "None"]
    ELSE LET r == format_cell(m, h, Head(cells).loc[1], Head(cells).loc[2],
                              Head(cells).obj, exist_ok)
         IN  IF r.raised # "None" THEN r
             ELSE format_cells(r.map, r.heap, Tail(cells), exist_ok)

\* CellFormatMap.iter_cells
iter_cells(m) == m

\* CellFormatMap.format_cell of input_output_managers.py: the object passed
\* is stored itself, and replaces what an occupied coordinate holds.
legacy_format_cell(m, row_idx, col_idx, excel_format, exist_ok) ==
    LET t == <<row_idx, col_idx>>
    IN  IF Has(m, t) /\ ~exist_ok
        THEN [map |-> m, raised |-> "KeyError"]
        ELSE IF Has(m, t)
        THEN [map |-> [i \in 1..Len(m) |->
                          IF m[i].loc = t THEN [loc |-> t, obj |-> excel_format]
                          ELSE m[i]],
              raised |-> "None"]
        ELSE [map |-> Append(m, [loc |-> t, obj |-> excel_format]),
              raised |-> "None"]

RECURSIVE legacy_format_cells(_, _)
legacy_format_cells(m, cells) ==
    IF cells = <<>>
    THEN [map |-> m, raised |-> "None"]
    ELSE LET r == legacy_format_cell(m, Head(cells).loc[1], Head(cells).loc[2],
                                     Head(cells).obj, FALSE)
         IN  IF r.raised # "None" THEN r
             ELSE legacy_format_cells(r.map, Tail(cells))

----------------------------------------------------------------------------
(* DataTable                                                               *)

\* A null of a frame (None or NaN): what pd.isna tells of a value.
NaN == <<-1>>
isna(value) == value = NaN

\* The default index of a frame of r rows: the labels 0 .. r - 1.
RangeIndex(r) == [i \in 1..r |-> i - 1]

\* A frame is its column names, its row labels and its rows.  A cell value
\* is <<t, i, j>>: of table t, the name of column j (i = 0) or the value of
\* body row i (i >= 1) in column j.
DataFrame(t, r, c) ==
    [columns |-> [j \in 1..c |-> <<t, 0, j - 1>>],
     index |-> RangeIndex(r),
     values |-> [i \in 1..r |-> [j \in 1..c |-> <<t, i, j - 1>>]]]

\* DataTable.total_rows: the body rows and the title row.
total_rows(d) == Len(d.values) + 1

\* DataTable.total_columns
total_columns(d) == Len(d.columns)

\* df.loc[label] = value of pandas: the row of that label is set to the value
\* in every column; a label the index lacks is appended with such a row.
loc_setitem(d, label, value) ==
    IF \E i \in 1..Len(d.index) : d.index[i] = label
    THEN [d EXCEPT !.values =
             [i \in 1..Len(d.values) |->
                 IF d.index[i] = label
                 THEN [j \in 1..Len(d.columns) |-> value]
                 ELSE d.values[i]]]
    ELSE [d EXCEPT !.index = Append(@, label),
                   !.values = Append(@, [j \in 1..Len(d.columns) |-> value])]

\* DataTable.insert_empty_rows: how_many times, df.loc[len(df)] = None.
RECURSIVE insert_empty_rows(_, _)
insert_empty_rows(d, how_many) ==
    IF how_many = 0 THEN d
    ELSE insert_empty_rows(loc_setitem(d, Len(d.index), NaN), how_many - 1)

\* df.insert(loc, column, value) of pandas, value a list.  A column name the
\* frame has is refused; a frame without rows takes the index of the value,
\* its columns filled with nulls; a list whose length is not the length of
\* the index is refused.
df_insert(d, loc, column, value) ==
    IF \E j \in 1..Len(d.columns) : d.columns[j] = column
    THEN [df |-> d, raised |-> "ValueError"]
    ELSE LET d1 == IF Len(d.index) = 0 /\ Len(value) > 0
                   THEN [columns |-> d.columns,
                         index |-> RangeIndex(Len(value)),
                         values |-> [i \in 1..Len(value) |->
                                        [j \in 1..Len(d.columns) |-> NaN]]]
                   ELSE d
         IN  IF Len(value) # Len(d1.index)
             THEN [df |-> d, raised |-> "ValueError"]
             ELSE [df |-> [columns |-> SubSeq(d1.columns, 1, loc) \o <<column>>
                                       \o SubSeq(d1.columns, loc + 1, Len(d1.columns)),
                           index |-> d1.index,
                           values |-> [i \in 1..Len(d1.values) |->
                                          SubSeq(d1.values[i], 1, loc) \o <<value[i]>>
                                          \o SubSeq(d1.values[i], loc + 1,
                                                    Len(d1.values[i]))]],
                   raised |-> "None"]

\* The loop of insert_empty_columns: a column named None whose values are
\* the list value is inserted after the last column, until an insert raises.
RECURSIVE insert_columns(_, _, _)
insert_columns(d, how_many, value) ==
    IF how_many = 0
    THEN [df |-> d, raised |-> "None"]
    ELSE LET r == df_insert(d, total_columns(d), None, value)
         IN  IF r.raised # "None" THEN r
             ELSE insert_columns(r.df, how_many - 1, value)

\* DataTable.insert_empty_columns: the list holds total_rows nulls, a number
\* read once before the loop.
insert_empty_columns(d, how_many) ==
    insert_columns(d, how_many, [i \in 1..total_rows(d) |-> NaN])

\* The cells format_rows visits, in its order.
RowCells(d, row_indices, excel_format) ==
    [i \in 1..(Len(row_indices) * total_columns(d)) |->
        [loc |-> <<row_indices[((i - 1) \div total_columns(d)) + 1],
                   (i - 1) % total_columns(d)>>,
         obj |-> excel_format]]

\* The cells format_columns visits, in its order.
ColumnCells(d, col_indices, excel_format) ==
    [i \in 1..(Len(col_indices) * total_rows(d)) |->
        [loc |-> <<(i - 1) % total_rows(d),
                   col_indices[((i - 1) \div total_rows(d)) + 1]>>,
         obj |-> excel_format]]

----------------------------------------------------------------------------
(* DataSheet                                                               *)

\* The empty string every new grid cell holds.
Blank == <<>>

Blanks(n) == [i \in 1..n |-> Blank]

Max(a, b) == IF a > b THEN a ELSE b

\* A faulty _ensure_size: the size is set to what the table requires, not to the maximum.
ensure_size_required(g, nr, nc, required_num_rows, required_num_cols) ==
    LET rows == Max(nr, required_num_rows)
        cols == Max(nc, required_num_cols)
        g1 == IF cols > nc
              THEN [i \in 1..Len(g) |-> g[i] \o Blanks(cols - nc)]
              ELSE g
        g2 == IF rows > nr
              THEN g1 \o [i \in 1..(rows - nr) |-> Blanks(cols)]
              ELSE g1
    IN  [grid |-> g2, num_rows |-> required_num_rows,
         num_cols |-> required_num_cols]

\* DataSheet._ensure_size
ensure_size(g, nr, nc, required_num_rows, required_num_cols) ==
    LET rows == Max(nr, required_num_rows)
        cols == Max(nc, required_num_cols)
        g1 == IF cols > nc
              THEN [i \in 1..Len(g) |-> g[i] \o Blanks(cols - nc)]
              ELSE g
        g2 == IF rows > nr
              THEN g1 \o [i \in 1..(rows - nr) |-> Blanks(cols)]
              ELSE g1
    IN  [grid |-> g2, num_rows |-> rows, num_cols |-> cols]

\* np.vstack([df.columns, df.to_numpy()]): the column names, then the body.
table_values(d) == <<d.columns>> \o d.values

\* A faulty copy loop: a cell that already holds a value is not overwritten.
write_values_if_blank(g, tv, row_start_idx, col_start_idx) ==
    [i \in 1..Len(g) |-> [j \in 1..Len(g[i]) |->
        IF /\ i - 1 - row_start_idx \in 0..(Len(tv) - 1)
           /\ j - 1 - col_start_idx \in 0..(Len(tv[1]) - 1)
           /\ g[i][j] = <<>>
        THEN tv[i - row_start_idx][j - col_start_idx]
        ELSE g[i][j]]]

\* The two loops of insert_data_table that copy table_values into the grid.
write_values(g, tv, row_start_idx, col_start_idx) ==
    [i \in 1..Len(g) |-> [j \in 1..Len(g[i]) |->
        IF /\ i - 1 - row_start_idx \in 0..(Len(tv) - 1)
           /\ j - 1 - col_start_idx \in 0..(Len(tv[1]) - 1)
        THEN tv[i - row_start_idx][j - col_start_idx]
        ELSE g[i][j]]]

\* The entries of a table's format map at their sheet coordinates.
translated(m, row_start_idx, col_start_idx) ==
    [i \in 1..Len(m) |->
        [loc |-> <<row_start_idx + m[i].loc[1], col_start_idx + m[i].loc[2]>>,
         obj |-> m[i].obj]]

\* DataSheet.insert_data_table, on the fields of one sheet.  The grid and the
\* size are written before the formats, which the loop copies with the
\* default exist_ok=False, so they stay written when a format_cell raises.
insert_data_table(g, nr, nc, master, h, d, table_map, row_start_idx, col_start_idx) ==
    LET tv == table_values(d)
        row_end_idx == row_start_idx + Len(tv)
        col_end_idx == col_start_idx + Len(tv[1])
        sized == ensure_size(g, nr, nc, row_end_idx, col_end_idx)
        f == format_cells(master, h,
                 translated(iter_cells(table_map), row_start_idx, col_start_idx),
                 FALSE)
    IN  [grid |-> write_values(sized.grid, tv, row_start_idx, col_start_idx),
         num_rows |-> sized.num_rows, num_cols |-> sized.num_cols,
         map |-> f.map, heap |-> f.heap, raised |-> f.raised]

\* DataSheet.shape
shape(s) == <<num_rows[s], num_cols[s]>>

\* DataSheet.create_format_map of input_output_managers.py: the sheet's map
\* computed from the format maps the anchored tables have now.
RECURSIVE create_format_map(_, _, _)
create_format_map(master_map, anchored, maps) ==
    IF anchored = <<>>
    THEN [map |-> master_map, raised |-> "None"]
    ELSE LET r == legacy_format_cells(master_map,
                      translated(maps[Head(anchored).table],
                                 Head(anchored).anchor[1], Head(anchored).anchor[2]))
         IN  IF r.raised # "None" THEN r
             ELSE create_format_map(r.map, Tail(anchored), maps)

----------------------------------------------------------------------------
(* ExcelManager                                                            *)

Names(ds) == {ds[i].name : i \in 1..Len(ds)}

\* A faulty add_data_sheet: a registered name is bound to the new sheet, without an error.
add_data_sheet_rebind(ds, sheet_name, data_sheet) ==
    IF sheet_name \in Names(ds)
    THEN [data_sheets |-> [i \in 1..Len(ds) |->
                              IF ds[i].name = sheet_name
                              THEN [name |-> sheet_name, sheet |-> data_sheet]
                              ELSE ds[i]],
          raised |-> "None"]
    ELSE [data_sheets |-> Append(ds, [name |-> sheet_name, sheet |-> data_sheet]),
          raised |-> "None"]

\* ExcelManager.add_data_sheet
add_data_sheet(ds, sheet_name, data_sheet) ==
    IF sheet_name \in Names(ds)
    THEN [data_sheets |-> ds, raised |-> "KeyError"]
    ELSE [data_sheets |-> Append(ds, [name |-> sheet_name, sheet |-> data_sheet]),
          raised |-> "None"]

\* `excel_format in formats_map`: a key with the same hash that is equal.
InFormatsMap(keys, h, excel_format) ==
    \E i \in 1..Len(keys) :
        Hash(h[keys[i]]) = Hash(h[excel_format]) /\ Eq(keys[i], excel_format)

\* formats_map[excel_format]: the handle add_format returned for that key.
Handle(keys, h, excel_format) ==
    CHOOSE i \in 1..Len(keys) :
        Hash(h[keys[i]]) = Hash(h[excel_format]) /\ Eq(keys[i], excel_format)

\* The value export hands to ws.write: None for a null (a tabled value is
\* never infinite).  The writer makes a blank cell of None as it does of ''.
written_value(value) == IF isna(value) THEN None ELSE value

\* The label pandas gives column j of a frame built from a list of rows.
ColumnLabel(j) == <<0, 0, j>>

\* df.to_excel(writer, sheet_name, index=False): the rows of the destination
\* sheet.  The column labels are row 0, row r of the frame is row r + 1, a
\* null is written as ''.
to_excel(rows) ==
    LET n == IF rows = <<>> THEN 0 ELSE Len(rows[1])
    IN  <<[j \in 1..n |-> ColumnLabel(j - 1)]>>
        \o [i \in 1..Len(rows) |-> [j \in 1..Len(rows[i]) |->
                IF isna(rows[i][j]) THEN Blank ELSE rows[i][j]]]

\* A faulty loop of export: the styled write goes to the row of the grid, without
\* the shift below the header row.
RECURSIVE export_cells_unshifted(_, _, _, _, _, _)
export_cells_unshifted(cells, s, sheet_name, keys, writes, h) ==
    IF cells = <<>>
    THEN [keys |-> keys, writes |-> writes, raised |-> "None"]
    ELSE LET row_idx == Head(cells).loc[1]
             col_idx == Head(cells).loc[2]
             excel_format == Head(cells).obj
             keys1 == IF InFormatsMap(keys, h, excel_format) THEN keys
                      ELSE Append(keys, excel_format)
         IN  IF row_idx >= Len(grid[s]) \/ col_idx >= num_cols[s]
             THEN [keys |-> keys1, writes |-> writes, raised |-> "IndexError"]
             ELSE export_cells_unshifted(Tail(cells), s, sheet_name, keys1,
                      Append(writes,
                          [sheet |-> sheet_name, row |-> row_idx,
                           col |-> col_idx,
                           value |-> written_value(grid[s][row_idx + 1][col_idx + 1]),
                           style |-> Handle(keys1, h, excel_format)]),
                      h)

\* The loop of export over the cells of one sheet's master_format_map.  keys
\* are the keys of formats_map in the order add_format was called for them.
RECURSIVE export_cells(_, _, _, _, _, _)
export_cells(cells, s, sheet_name, keys, writes, h) ==
    IF cells = <<>>
    THEN [keys |-> keys, writes |-> writes, raised |-> "None"]
    ELSE LET row_idx == Head(cells).loc[1]
             col_idx == Head(cells).loc[2]
             excel_format == Head(cells).obj
             keys1 == IF InFormatsMap(keys, h, excel_format) THEN keys
                      ELSE Append(keys, excel_format)
             header_adjusted_row_idx == row_idx + 1
         IN  IF row_idx >= Len(grid[s]) \/ col_idx >= num_cols[s]
             THEN \* df.iloc[row_idx, col_idx] is out of bounds
                  [keys |-> keys1, writes |-> writes, raised |-> "IndexError"]
             ELSE export_cells(Tail(cells), s, sheet_name, keys1,
                      Append(writes,
                          [sheet |-> sheet_name, row |-> header_adjusted_row_idx,
                           col |-> col_idx,
                           value |-> written_value(grid[s][row_idx + 1][col_idx + 1]),
                           style |-> Handle(keys1, h, excel_format)]),
                      h)

\* The loop of export over the registered sheets.
RECURSIVE export_sheets(_, _, _, _, _)
export_sheets(ds, keys, frames, writes, h) ==
    IF ds = <<>>
    THEN [keys |-> keys, frames |-> frames, writes |-> writes, raised |-> "None"]
    ELSE LET s == Head(ds).sheet
             frames1 == Append(frames, [sheet |-> Head(ds).name,
                                        rows |-> to_excel(grid[s])])
             r == export_cells(iter_cells(master_format_map[s]), s, Head(ds).name,
                               keys, writes, h)
         IN  IF r.raised # "None"
             THEN [keys |-> r.keys, frames |-> frames1, writes |-> r.writes,
                   raised |-> r.raised]
             ELSE export_sheets(Tail(ds), r.keys, frames1, r.writes, h)

\* ExcelManager.export: what the writer was given.  add_format holds the
\* argument of every wb.add_format call, to_excel the destination rows
\* df.to_excel wrote for every sheet, write every ws.write call.
export(ds, h) ==
    LET r == export_sheets(ds, <<>>, <<>>, <<>>, h)
    IN  [add_format |-> [i \in 1..Len(r.keys) |->
                            create_xlsx_writer_format(h[r.keys[i]])],
         to_excel |-> r.frames, write |-> r.writes, raised |-> r.raised]

----------------------------------------------------------------------------
(* The program: tables are formatted and inserted into sheets, sheets are  *)
(* registered with the manager, the manager exports.                       *)

Tables == {1, 2}
Sheets == {1, 2}
SheetNames == {"Sheet1", "Sheet2"}
SheetNameOf == <<"Sheet1", "Sheet2">>

\* The formats the caller holds and passes: ExcelFormat(),
\* ExcelFormat(font_size=None, is_bold=True, text_align=None) and
\* ExcelFormat(font_color=RED, font_size=10, is_bold=None, text_align=None).
CallerFormats ==
    << DefaultFormat,
       ExcelFormat(None, None, Some(TRUE), None, None),
       ExcelFormat(Some("RED"), Some(10), None, None, None) >>

CallerObjs == 1..Len(CallerFormats)

\* The body shapes of the two tables: one body row of two columns, two body
\* rows of one column.
TableShapes == <<[rows |-> 1, cols |-> 2], [rows |-> 2, cols |-> 1]>>

\* The row and column indices the caller formats, the lists of indices it
\* passes to format_rows and format_columns, and the anchors it inserts at.
FmtIdx == {0, 1}
IndexLists == {<<1>>, <<0, 1>>}
Anchors == {0, 1}

HeapLimit == Len(CallerFormats) + MaxObjs

NoCall == [op |-> "none", raised |-> "None"]

Init ==
    /\ heap = CallerFormats
    /\ call = NoCall
    /\ df = [t \in Tables |-> DataFrame(t, TableShapes[t].rows, TableShapes[t].cols)]
    /\ format_map = [t \in Tables |-> <<>>]
    /\ grid = [s \in Sheets |-> <<>>]
    /\ num_rows = [s \in Sheets |-> 0]
    /\ num_cols = [s \in Sheets |-> 0]
    /\ master_format_map = [s \in Sheets |-> <<>>]
    /\ tables = [s \in Sheets |-> <<>>]
    /\ data_sheets = <<>>
    /\ legacy_map = <<>>

\* DataTable.format_cell.  call.stored tells that the call stored a new entry,
\* call.again that it and the call before it were format_cell calls with
\* exist_ok=True on the same coordinate of the same table.
FormatCell(t, row_idx, col_idx, excel_format, exist_ok) ==
    LET r == format_cell(format_map[t], heap, row_idx, col_idx, excel_format, exist_ok)
    IN  /\ Len(r.heap) <= HeapLimit
        /\ heap' = r.heap
        /\ format_map' = [format_map EXCEPT ![t] = r.map]
        /\ call' = [op |-> "format_cell", table |-> t, loc |-> <<row_idx, col_idx>>,
                    excel_format |-> excel_format, exist_ok |-> exist_ok,
                    stored |-> Len(r.map) > Len(format_map[t]),
                    again |-> /\ call.op = "format_cell"
                              /\ call.table = t
                              /\ call.loc = <<row_idx, col_idx>>
                              /\ call.exist_ok /\ exist_ok,
                    raised |-> r.raised]
        /\ UNCHANGED <<df, grid, num_rows, num_cols, master_format_map, tables,
                       data_sheets, legacy_map>>

\* DataTable.format_rows
FormatRows(t, row_indices, excel_format, exist_ok) ==
    LET r == format_cells(format_map[t], heap,
                          RowCells(df[t], row_indices, excel_format), exist_ok)
    IN  /\ Len(r.heap) <= HeapLimit
        /\ heap' = r.heap
        /\ format_map' = [format_map EXCEPT ![t] = r.map]
        /\ call' = [op |-> "format_rows", raised |-> r.raised]
        /\ UNCHANGED <<df, grid, num_rows, num_cols, master_format_map, tables,
                       data_sheets, legacy_map>>

\* DataTable.format_columns
FormatColumns(t, col_indices, excel_format, exist_ok) ==
    LET r == format_cells(format_map[t], heap,
                          ColumnCells(df[t], col_indices, excel_format), exist_ok)
    IN  /\ Len(r.heap) <= HeapLimit
        /\ heap' = r.heap
        /\ format_map' = [format_map EXCEPT ![t] = r.map]
        /\ call' = [op |-> "format_columns", raised |-> r.raised]
        /\ UNCHANGED <<df, grid, num_rows, num_cols, master_format_map, tables,
                       data_sheets, legacy_map>>

\* DataSheet.insert_data_table.  tables keeps which table was inserted where,
\* as DataSheet.insert_data_table of input_output_managers.py does, with the
\* size and the values the table had then.
InsertDataTable(s, t, row_start_idx, col_start_idx) ==
    LET r == insert_data_table(grid[s], num_rows[s], num_cols[s],
                               master_format_map[s], heap, df[t], format_map[t],
                               row_start_idx, col_start_idx)
    IN  /\ Len(tables[s]) < MaxInserts
        /\ Len(r.heap) <= HeapLimit
        /\ heap' = r.heap
        /\ grid' = [grid EXCEPT ![s] = r.grid]
        /\ num_rows' = [num_rows EXCEPT ![s] = r.num_rows]
        /\ num_cols' = [num_cols EXCEPT ![s] = r.num_cols]
        /\ master_format_map' = [master_format_map EXCEPT ![s] = r.map]
        /\ tables' = [tables EXCEPT ![s] =
                          Append(@, [anchor |-> <<row_start_idx, col_start_idx>>,
                                     table |-> t,
                                     total_rows |-> total_rows(df[t]),
                                     total_columns |-> total_columns(df[t]),
                                     values |-> table_values(df[t])])]
        /\ call' = [op |-> "insert_data_table", raised |-> r.raised]
        /\ UNCHANGED <<df, format_map, data_sheets, legacy_map>>

\* ExcelManager.add_data_sheet
AddDataSheet(sheet_name, s) ==
    LET r == add_data_sheet(data_sheets, sheet_name, s)
    IN  /\ data_sheets' = r.data_sheets
        /\ call' = [op |-> "add_data_sheet", name |-> sheet_name, sheet |-> s,
                    raised |-> r.raised]
        /\ UNCHANGED <<heap, df, format_map, grid, num_rows, num_cols,
                       master_format_map, tables, legacy_map>>

\* ExcelManager.export
Export ==
    LET r == export(data_sheets, heap)
    IN  /\ call' = [op |-> "export", out |-> r, raised |-> r.raised]
        /\ UNCHANGED <<heap, df, format_map, grid, num_rows, num_cols,
                       master_format_map, tables, data_sheets, legacy_map>>

\* ExcelFormat.update on two caller-held objects (a.update(a) included).
UpdateCall(a, b) ==
    /\ heap' = [heap EXCEPT ![a] = Update(heap[a], heap[b])]
    /\ call' = [op |-> "update", self |-> a, other |-> b, raised |-> "None"]
    /\ UNCHANGED <<df, format_map, grid, num_rows, num_cols, master_format_map,
                   tables, data_sheets, legacy_map>>

\* Two ExcelFormat objects of any attribute values.
InitUpdate ==
    /\ heap \in [1..2 -> AllFormats]
    /\ call = NoCall
    /\ df = [t \in Tables |-> DataFrame(t, TableShapes[t].rows, TableShapes[t].cols)]
    /\ format_map = [t \in Tables |-> <<>>]
    /\ grid = [s \in Sheets |-> <<>>]
    /\ num_rows = [s \in Sheets |-> 0]
    /\ num_cols = [s \in Sheets |-> 0]
    /\ master_format_map = [s \in Sheets |-> <<>>]
    /\ tables = [s \in Sheets |-> <<>>]
    /\ data_sheets = <<>>
    /\ legacy_map = <<>>

NextUpdate == \E a \in 1..2, b \in 1..2 : UpdateCall(a, b)

SpecUpdate == InitUpdate /\ [][NextUpdate]_vars

\* CellFormatMap.format_cell of input_output_managers.py, on one such map.
LegacyFormatCell(row_idx, col_idx, excel_format, exist_ok) ==
    LET r == legacy_format_cell(legacy_map, row_idx, col_idx, excel_format, exist_ok)
    IN  /\ legacy_map' = r.map
        /\ call' = [op |-> "legacy_format_cell", raised |-> r.raised]
        /\ UNCHANGED <<heap, df, format_map, grid, num_rows, num_cols,
                       master_format_map, tables, data_sheets>>

\* The caller sets is_bold on a format object it holds.
SetBold(excel_format, v) ==
    /\ heap' = [heap EXCEPT ![excel_format].is_bold = v]
    /\ call' = [op |-> "setattr", raised |-> "None"]
    /\ UNCHANGED <<df, format_map, grid, num_rows, num_cols, master_format_map,
                   tables, data_sheets, legacy_map>>

\* The caller keeps its format objects and changes them between calls; both
\* kinds of CellFormatMap store what it passes.
NextAlias ==
    \/ \E i \in FmtIdx, f \in {1, 2}, ok \in BOOLEAN : FormatCell(1, i, 0, f, ok)
    \/ \E i \in FmtIdx, f \in {1, 2}, ok \in BOOLEAN :
          LegacyFormatCell(i, 0, f, ok)
    \/ \E f \in {1, 2}, v \in {None, Some(TRUE)} : SetBold(f, v)

SpecAlias == Init /\ [][NextAlias]_vars

\* Formatting one table: every format call, with the first two formats.
NextFormat ==
    \/ \E i \in FmtIdx, j \in FmtIdx, f \in {1, 2}, ok \in BOOLEAN :
          FormatCell(1, i, j, f, ok)
    \/ \E l \in IndexLists, ok \in BOOLEAN : FormatRows(1, l, 2, ok)
    \/ \E l \in IndexLists, ok \in BOOLEAN : FormatColumns(1, l, 1, ok)

SpecFormat == Init /\ [][NextFormat]_vars

\* Composing one sheet: tables are formatted and inserted in any order.
NextSheet ==
    \/ \E t \in Tables : FormatCell(t, 0, 0, 2, FALSE)
    \/ FormatRows(1, <<0>>, 3, TRUE)
    \/ \E t \in Tables, i \in Anchors, j \in Anchors :
          InsertDataTable(1, t, i, j)

SpecSheet == Init /\ [][NextSheet]_vars

\* The whole program: header rows are formatted, tables are inserted at the
\* top-left corner, sheets are registered, the manager exports.
Next ==
    \/ \E t \in Tables : FormatCell(t, 1, 1, 1, FALSE)
    \/ \E t \in Tables : FormatRows(t, <<0>>, 2, FALSE)
    \/ \E s \in Sheets, t \in Tables : InsertDataTable(s, t, 0, 0)
    \/ \E s \in Sheets : AddDataSheet(SheetNameOf[s], s)
    \/ Export

Spec == Init /\ [][Next]_vars

\* Registering sheets: any sheet under any name.
NextManager ==
    \/ \E s \in Sheets, t \in Tables : InsertDataTable(s, t, 0, 0)
    \/ \E n \in SheetNames, s \in Sheets : AddDataSheet(n, s)
    \/ Export

SpecManager == Init /\ [][NextManager]_vars

\* The tables of an export: table 1 has the columns "name" and "score" and
\* two body rows, table 2 one column and one body row that holds a null.
ExportFrames ==
    << DataFrame(1, 2, 2),
       [columns |-> << <<2, 0, 0>> >>, index |-> RangeIndex(1),
        values |-> << << NaN >> >>] >>

InitExport ==
    /\ heap = CallerFormats
    /\ call = NoCall
    /\ df = [t \in Tables |-> ExportFrames[t]]
    /\ format_map = [t \in Tables |-> <<>>]
    /\ grid = [s \in Sheets |-> <<>>]
    /\ num_rows = [s \in Sheets |-> 0]
    /\ num_cols = [s \in Sheets |-> 0]
    /\ master_format_map = [s \in Sheets |-> <<>>]
    /\ tables = [s \in Sheets |-> <<>>]
    /\ data_sheets = <<>>
    /\ legacy_map = <<>>

\* Exporting: the header row of table 1 is formatted bold, the body cell of
\* table 2 and a cell to the right of table 2 are formatted, table 1 is
\* inserted at the top of the first sheet and table 2 one row below, table 2
\* at the top of the second sheet, the sheets are registered, the manager
\* exports.
NextExport ==
    \/ FormatRows(1, <<0>>, 2, FALSE)
    \/ \E j \in FmtIdx : FormatCell(2, 1, j, 3, TRUE)
    \/ \E t \in Tables : InsertDataTable(1, t, t - 1, 0)
    \/ InsertDataTable(2, 2, 0, 0)
    \/ \E s \in Sheets : AddDataSheet(SheetNameOf[s], s)
    \/ Export

SpecExport == InitExport /\ [][NextExport]_vars

\* DataTable.insert_empty_rows
InsertEmptyRows(t, how_many) ==
    /\ Len(df[t].values) + how_many <= MaxBodyRows
    /\ df' = [df EXCEPT ![t] = insert_empty_rows(@, how_many)]
    /\ call' = [op |-> "insert_empty_rows", table |-> t, how_many |-> how_many,
                raised |-> "None"]
    /\ UNCHANGED <<heap, format_map, grid, num_rows, num_cols, master_format_map,
                   tables, data_sheets, legacy_map>>

\* DataTable.insert_empty_columns.  The columns inserted before an insert
\* raises stay in the frame.
InsertEmptyColumns(t, how_many) ==
    LET r == insert_empty_columns(df[t], how_many)
    IN  /\ total_columns(df[t]) + how_many <= MaxColumns
        /\ df' = [df EXCEPT ![t] = r.df]
        /\ call' = [op |-> "insert_empty_columns", table |-> t,
                    how_many |-> how_many, raised |-> r.raised]
        /\ UNCHANGED <<heap, format_map, grid, num_rows, num_cols,
                       master_format_map, tables, data_sheets, legacy_map>>

\* The frames a table is made of: none to two body rows of one or two
\* columns with the default index, and the last two rows of a frame of three
\* rows and one column, which keep their labels 1 and 2 (df.iloc[1:]).
TableFrames ==
    {DataFrame(1, r, c) : r \in 0..2, c \in 1..2}
    \cup {[columns |-> << <<1, 0, 0>> >>, index |-> <<1, 2>>,
           values |-> << << <<1, 2, 0>> >>, << <<1, 3, 0>> >> >>]}

InitTable ==
    /\ heap = CallerFormats
    /\ call = NoCall
    /\ \E d \in TableFrames :
          df = [t \in Tables |-> IF t = 1 THEN d ELSE DataFrame(t, 1, 1)]
    /\ format_map = [t \in Tables |-> <<>>]
    /\ grid = [s \in Sheets |-> <<>>]
    /\ num_rows = [s \in Sheets |-> 0]
    /\ num_cols = [s \in Sheets |-> 0]
    /\ master_format_map = [s \in Sheets |-> <<>>]
    /\ tables = [s \in Sheets |-> <<>>]
    /\ data_sheets = <<>>
    /\ legacy_map = <<>>

\* Growing one table: cells and the header row are formatted, empty rows and
\* empty columns are appended, in any order.
NextTable ==
    \/ \E i \in FmtIdx, j \in FmtIdx : FormatCell(1, i, j, 2, FALSE)
    \/ FormatRows(1, <<0>>, 3, TRUE)
    \/ \E how_many \in 0..2 : InsertEmptyRows(1, how_many)
    \/ \E how_many \in 1..2 : InsertEmptyColumns(1, how_many)

SpecTable == InitTable /\ [][NextTable]_vars

----------------------------------------------------------------------------
(* The claims.                                                             *)

\* The format the map m holds at loc, read from the heap h.
Stored(m, h, loc) == h[At(m, loc)]

\* The number of entries of the map m at loc.
Count(m, loc) == Cardinality({i \in 1..Len(m) : m[i].loc = loc})

\* C1: a format_cell with exist_ok=false on a coordinate that holds a format
\* raises the duplicate-coordinate error (KeyError) and leaves the map, and
\* every format stored in it, as they were.
C1_DuplicateCellFails ==
    [][(/\ call'.op = "format_cell"
        /\ ~call'.exist_ok
        /\ Has(format_map[call'.table], call'.loc))
       => (/\ call'.raised = "KeyError"
           /\ format_map' = format_map
           /\ \A t \in Tables : \A i \in 1..Len(format_map[t]) :
                  heap'[format_map[t][i].obj] = heap[format_map[t][i].obj])]_vars

\* C1's case: the call just made was refused at a coordinate whose format an
\* earlier format_cell had stored.
C1_Witness ==
    /\ call.op = "format_cell"
    /\ call.raised = "KeyError"
    /\ ~call.exist_ok
    /\ Has(format_map[call.table], call.loc)
    /\ Len(format_map[call.table]) >= 2

C3_UpdateMerges ==
    [][call'.op = "update"
       => LET a == call'.self
              b == call'.other
          IN  /\ \A k \in Attrs :
                    /\ heap[b][k] # None => heap'[a][k] = heap[b][k]
                    /\ heap[b][k] = None => heap'[a][k] = heap[a][k]
              /\ heap'[b] = heap[b]
              /\ Len(heap') = Len(heap)]_vars

\* C3's case: an update of a by another object b that sets is_bold to False
\* and leaves font_color unset, where a keeps its font_color.
C3_Witness ==
    /\ call.op = "update"
    /\ call.self # call.other
    /\ heap[call.other].is_bold = Some(FALSE)
    /\ heap[call.other].font_color = None
    /\ heap[call.self].is_bold = Some(FALSE)
    /\ heap[call.self].font_color = Some("RED")

\* The table of sheet s inserted last among those whose rectangle, title row
\* included, covers the cell (r, c); 0 when none does.
Covering(s, r, c) ==
    {k \in 1..Len(tables[s]) :
        /\ r - tables[s][k].anchor[1] \in 0..(tables[s][k].total_rows - 1)
        /\ c - tables[s][k].anchor[2] \in 0..(tables[s][k].total_columns - 1)}

LastCovering(s, r, c) ==
    CHOOSE k \in Covering(s, r, c) : \A l \in Covering(s, r, c) : l <= k

Expected(s, r, c) ==
    IF Covering(s, r, c) = {} THEN Blank
    ELSE LET e == tables[s][LastCovering(s, r, c)]
         IN  e.values[r - e.anchor[1] + 1][c - e.anchor[2] + 1]

\* The coordinates and attribute values of a format map.
View(m, h) == {<<m[i].loc, h[m[i].obj]>> : i \in 1..Len(m)}

\* C4: an insert_data_table whose table has a format at a sheet coordinate
\* that already holds one does not fail, and every format of the table is
\* merged into the sheet's map as with exist_ok=true: the table's set
\* attributes win, its unset attributes keep what the sheet had.
C4_CollidingInsertMerges ==
    [][\A t \in Tables, i \in Anchors, j \in Anchors :
         InsertDataTable(1, t, i, j)
         => /\ call'.raised = "None"
            /\ \A e \in 1..Len(format_map[t]) :
                 LET loc == <<i + format_map[t][e].loc[1], j + format_map[t][e].loc[2]>>
                     F == heap[format_map[t][e].obj]
                 IN  /\ Has(master_format_map'[1], loc)
                     /\ Stored(master_format_map'[1], heap', loc) =
                          IF Has(master_format_map[1], loc)
                          THEN Update(Stored(master_format_map[1], heap, loc), F)
                          ELSE F]_vars

\* C5: the grid is rectangular, of the sheet's shape, and every cell holds
\* the value of the table inserted last among those that cover it (a column
\* name on the table's anchor row, a body value below), or the empty marker
\* when no table covers it.
C5_LaterWriteWins ==
    \A s \in Sheets :
        /\ Len(grid[s]) = num_rows[s]
        /\ \A r \in 1..Len(grid[s]) :
              /\ Len(grid[s][r]) = num_cols[s]
              /\ \A c \in 1..Len(grid[s][r]) :
                    grid[s][r][c] = Expected(s, r - 1, c - 1)

\* C5's case: two tables were inserted into sheet 1 and its grid has a cell
\* both cover, a cell only the first covers and a cell neither covers.
C5_Witness ==
    /\ Len(tables[1]) = 2
    /\ \E r \in 0..(num_rows[1] - 1), c \in 0..(num_cols[1] - 1) :
          Covering(1, r, c) = {1, 2}
    /\ \E r \in 0..(num_rows[1] - 1), c \in 0..(num_cols[1] - 1) :
          Covering(1, r, c) = {1}
    /\ \E r \in 0..(num_rows[1] - 1), c \in 0..(num_cols[1] - 1) :
          Covering(1, r, c) = {} /\ grid[1][r + 1][c + 1] = Blank

\* The largest of a set of naturals, 0 for the empty set.
MaxOf(S) == IF S = {} THEN 0 ELSE CHOOSE x \in S : \A y \in S : y <= x

BoundingShape(s) ==
    << MaxOf({tables[s][k].anchor[1] + tables[s][k].total_rows : k \in 1..Len(tables[s])}),
       MaxOf({tables[s][k].anchor[2] + tables[s][k].total_columns : k \in 1..Len(tables[s])}) >>

\* C6: the shape of a sheet is, in both components, the largest
\* anchor + total size over the tables inserted (as they were when
\* inserted), (0, 0) for a sheet without tables, and no call makes either
\* component smaller.
C6_ShapeIsBoundingBox ==
    /\ \A s \in Sheets : shape(s) = BoundingShape(s)
    /\ [][\A s \in Sheets :
            /\ shape(s)' = BoundingShape(s)'
            /\ shape(s)'[1] >= shape(s)[1]
            /\ shape(s)'[2] >= shape(s)[2]]_vars

\* C6's case: a second table was inserted that needs fewer rows than the
\* sheet already has, and the sheet kept its rows.
C6_Witness ==
    /\ Len(tables[1]) = 2
    /\ call.op = "insert_data_table"
    /\ tables[1][2].anchor[1] + tables[1][2].total_rows < num_rows[1]
    /\ tables[1][2].anchor[2] + tables[1][2].total_columns = num_cols[1]
    /\ tables[1][1].anchor[2] + tables[1][1].total_columns < num_cols[1]

\* C7: when export reads the map of a registered sheet, the map built as
\* the tables were inserted holds the coordinates and formats a recompute
\* from the format maps the sheet's tables have now gives.
C7_CachedMapIsRecompute ==
    call.op = "export" =>
        \A d \in 1..Len(data_sheets) :
            LET s == data_sheets[d].sheet
                r == create_format_map(<<>>, tables[s], format_map)
            IN  r.raised = "None" =>
                    View(master_format_map[s], heap) = View(r.map, heap)

\* The entries of the format maps of excel.py, and of all the format maps.
ExcelCells ==
    format_map[1] \o format_map[2] \o master_format_map[1] \o master_format_map[2]

AllCells == ExcelCells \o legacy_map

\* No entry of cells holds an object the caller holds, and no two entries
\* hold the same object.
NoAlias(cells) ==
    /\ \A i \in 1..Len(cells) : cells[i].obj \notin CallerObjs
    /\ \A i \in 1..Len(cells), j \in 1..Len(cells) :
          cells[i].obj = cells[j].obj => i = j

\* C8: a stored format is a copy: no entry of a format map is an object the
\* caller holds or an object another entry holds, and when the caller
\* changes a format object it holds, every stored format stays as it was.
C8_StoredFormatIsDeepCopy ==
    [][/\ NoAlias(AllCells)'
       /\ call'.op = "setattr" =>
             \A i \in 1..Len(AllCells) :
                 heap'[AllCells[i].obj] = heap[AllCells[i].obj]]_vars

\* The same of the format maps of excel.py alone, which holds.
ExcelStoredFormatIsDeepCopy ==
    [][/\ NoAlias(ExcelCells)'
       /\ call'.op = "setattr" =>
             \A i \in 1..Len(ExcelCells) :
                 heap'[ExcelCells[i].obj] = heap[ExcelCells[i].obj]]_vars

\* C9: export registers one style per distinct attribute tuple among the
\* formatted cells of the registered sheets, however many cells share it.
C9_StylesAreDeduplicated ==
    (call.op = "export" /\ call.raised = "None") =>
        Len(call.out.add_format) =
            Cardinality(UNION {{v[2] : v \in View(master_format_map[data_sheets[d].sheet], heap)} :
                                  d \in 1..Len(data_sheets)})

\* C10: add_data_sheet registers the sheet under a name that is not
\* registered, after the sheets there are; under a registered name it raises
\* the duplicate-name error (KeyError) and leaves the names, their order and
\* their sheets as they were; so no name is ever registered twice.
C10_SheetNamesUnique ==
    [][call'.op = "add_data_sheet"
       => /\ IF call'.name \in Names(data_sheets)
             THEN call'.raised = "KeyError" /\ data_sheets' = data_sheets
             ELSE /\ call'.raised = "None"
                  /\ data_sheets' = Append(data_sheets,
                         [name |-> call'.name, sheet |-> call'.sheet])
          /\ \A a \in 1..Len(data_sheets'), b \in 1..Len(data_sheets') :
                data_sheets'[a].name = data_sheets'[b].name => a = b]_vars

\* C10's case: two sheets are registered and the call just made, for the
\* other sheet under a registered name, was refused.
C10_Witness ==
    /\ Len(data_sheets) = 2
    /\ call.op = "add_data_sheet"
    /\ call.raised = "KeyError"
    /\ \E d \in 1..Len(data_sheets) :
          data_sheets[d].name = call.name /\ data_sheets[d].sheet # call.sheet

\* The calls of ws.write that out records for the sheet registered as name.
WritesOf(out, name) == {w \in 1..Len(out.write) : out.write[w].sheet = name}

\* The entry of the map m lies inside the grid of sheet s.
InGrid(s, e) == e.loc[1] < Len(grid[s]) /\ e.loc[2] < num_cols[s]

\* C11: on export every cell is written at the header-adjusted row.  For a
\* registered sheet, df.to_excel puts row r of the grid at destination row
\* r + 1, below the row of column labels; every styled write is the write of
\* one entry (row, col, format) of the sheet's master format map, at
\* destination (row + 1, col), with the value the grid holds at (row, col)
\* (None for a null) and the style registered for the format; and when export
\* returns, every entry has exactly one such write.  Export raises only when
\* an entry lies outside the grid.
C11_ExportWritesAtHeaderAdjustedRow ==
    call.op = "export" =>
        LET out == call.out
        IN  /\ \A d \in 1..Len(out.to_excel) :
                  LET s == data_sheets[d].sheet
                      rows == out.to_excel[d].rows
                  IN  /\ out.to_excel[d].sheet = data_sheets[d].name
                      /\ Len(rows) = Len(grid[s]) + 1
                      /\ \A r \in 0..(Len(grid[s]) - 1), c \in 0..(num_cols[s] - 1) :
                            rows[(r + 1) + 1][c + 1] =
                                IF isna(grid[s][r + 1][c + 1]) THEN Blank
                                ELSE grid[s][r + 1][c + 1]
            /\ \A d \in 1..Len(data_sheets) :
                  LET s == data_sheets[d].sheet
                      name == data_sheets[d].name
                      m == master_format_map[s]
                  IN  /\ \A w \in WritesOf(out, name) :
                            \E i \in 1..Len(m) :
                                /\ InGrid(s, m[i])
                                /\ out.write[w].row = m[i].loc[1] + 1
                                /\ out.write[w].col = m[i].loc[2]
                                /\ out.write[w].value =
                                      written_value(grid[s][m[i].loc[1] + 1][m[i].loc[2] + 1])
                                /\ out.add_format[out.write[w].style] =
                                      create_xlsx_writer_format(heap[m[i].obj])
                      /\ \A i \in 1..Len(m) :
                            LET n == Cardinality({w \in WritesOf(out, name) :
                                         /\ out.write[w].row = m[i].loc[1] + 1
                                         /\ out.write[w].col = m[i].loc[2]})
                            IN  n <= 1 /\ (call.raised = "None" => n = 1)
            /\ call.raised = "None" => Len(out.to_excel) = Len(data_sheets)
            /\ call.raised # "None" =>
                  \E d \in 1..Len(data_sheets) :
                      \E i \in 1..Len(master_format_map[data_sheets[d].sheet]) :
                          ~InGrid(data_sheets[d].sheet,
                                  master_format_map[data_sheets[d].sheet][i])

\* C11 happens: table 1, its header row formatted bold, is the one table of
\* the sheet exported as Sheet1, at (0, 0); destination row 1 holds the two
\* column names, both written bold, destination rows 2 and 3 hold the two
\* body rows, and no styled write goes to them.
C11_Witness ==
    /\ call.op = "export" /\ call.raised = "None"
    /\ Len(data_sheets) >= 1
    /\ data_sheets[1] = [name |-> "Sheet1", sheet |-> 1]
    /\ Len(tables[1]) = 1
    /\ tables[1][1].table = 1 /\ tables[1][1].anchor = <<0, 0>>
    /\ df[1].columns = << <<1, 0, 0>>, <<1, 0, 1>> >> /\ Len(df[1].values) = 2
    /\ LET out == call.out
           rows == out.to_excel[1].rows
       IN  /\ rows[2] = df[1].columns
           /\ rows[3] = df[1].values[1]
           /\ rows[4] = df[1].values[2]
           /\ \A c \in {0, 1} :
                 \E w \in WritesOf(out, "Sheet1") :
                     /\ out.write[w].row = 1 /\ out.write[w].col = c
                     /\ out.write[w].value = df[1].columns[c + 1]
                     /\ out.add_format[out.write[w].style].bold = Some(TRUE)
           /\ \A w \in WritesOf(out, "Sheet1") : out.write[w].row = 1
           /\ Cardinality(WritesOf(out, "Sheet1")) = 2

\* C12: insert_empty_columns(n), n >= 1, succeeds on a table of body shape
\* (r, c) and appends n unnamed columns of nulls at the right edge: the body
\* shape is then (r, c + n), total_columns is c + n, the first c columns
\* keep their names and values, and every body row has total_columns values.
C12_InsertEmptyColumnsAppends ==
    [][call'.op = "insert_empty_columns"
       => LET t == call'.table
              n == call'.how_many
              r == Len(df[t].values)
              c == total_columns(df[t])
          IN  /\ call'.raised = "None"
              /\ Len(df'[t].values) = r
              /\ total_columns(df'[t]) = c + n
              /\ SubSeq(df'[t].columns, 1, c) = df[t].columns
              /\ \A j \in (c + 1)..(c + n) : df'[t].columns[j] = None
              /\ \A i \in 1..r :
                    /\ Len(df'[t].values[i]) = total_columns(df'[t])
                    /\ SubSeq(df'[t].values[i], 1, c) = df[t].values[i]
                    /\ \A j \in (c + 1)..(c + n) : isna(df'[t].values[i][j])]_vars

\* What insert_empty_columns does: on a table with body rows it raises
\* ValueError and leaves the frame as it was; on a table without body rows
\* the first column is inserted and the frame then has one row of nulls.
InsertEmptyColumnsRaisesOnBodyRows ==
    [][call'.op = "insert_empty_columns"
       => LET t == call'.table
          IN  /\ Len(df[t].values) >= 1 =>
                    call'.raised = "ValueError" /\ df'[t] = df[t]
              /\ Len(df[t].values) = 0 =>
                    /\ Len(df'[t].values) = 1
                    /\ total_columns(df'[t]) = total_columns(df[t]) + 1
                    /\ \A j \in 1..total_columns(df'[t]) : isna(df'[t].values[1][j])
                    /\ call'.raised = (IF call'.how_many = 1 THEN "None"
                                       ELSE "ValueError")]_vars

\* C13: after insert_empty_rows(k), k >= 0, on a table of body shape (r, c)
\* the body shape is (r + k, c), the k appended rows are null in every
\* column, the first r rows are as they were, and the format map is as it
\* was: the same coordinates with the same formats, none of them in an
\* appended row (body row i is row i of the table, below the header row 0).
C13_InsertEmptyRowsAppends ==
    [][call'.op = "insert_empty_rows"
       => LET t == call'.table
              k == call'.how_many
              r == Len(df[t].values)
              c == total_columns(df[t])
          IN  /\ Len(df'[t].values) = r + k
              /\ df'[t].columns = df[t].columns
              /\ SubSeq(df'[t].values, 1, r) = df[t].values
              /\ \A i \in (r + 1)..(r + k) :
                    /\ Len(df'[t].values[i]) = c
                    /\ \A j \in 1..c : isna(df'[t].values[i][j])
              /\ format_map'[t] = format_map[t]
              /\ \A i \in 1..Len(format_map[t]) :
                    heap'[format_map[t][i].obj] = heap[format_map[t][i].obj]
              /\ \A i \in 1..Len(format_map'[t]) :
                    format_map'[t][i].loc[1] \notin (r + 1)..(r + k)]_vars

\* The same of a table whose frame has the default index and whose format
\* map holds no coordinate below the last body row, which holds.
InsertEmptyRowsAppendsOnRangeIndex ==
    [][(/\ call'.op = "insert_empty_rows"
        /\ df[call'.table].index = RangeIndex(Len(df[call'.table].values))
        /\ \A i \in 1..Len(format_map[call'.table]) :
              format_map[call'.table][i].loc[1] <= Len(df[call'.table].values))
       => LET t == call'.table
              k == call'.how_many
              r == Len(df[t].values)
              c == total_columns(df[t])
          IN  /\ Len(df'[t].values) = r + k
              /\ df'[t].columns = df[t].columns
              /\ SubSeq(df'[t].values, 1, r) = df[t].values
              /\ \A i \in (r + 1)..(r + k) :
                    /\ Len(df'[t].values[i]) = c
                    /\ \A j \in 1..c : isna(df'[t].values[i][j])
              /\ format_map'[t] = format_map[t]
              /\ \A i \in 1..Len(format_map[t]) :
                    heap'[format_map[t][i].obj] = heap[format_map[t][i].obj]
              /\ \A i \in 1..Len(format_map'[t]) :
                    format_map'[t][i].loc[1] \notin (r + 1)..(r + k)]_vars

====
